---- MODULE Spec2Model ----
(***************************************************************************)
(* EduGlobe backend: the enrollment lifecycle (routes/enrollments.js over  *)
(* models/Enrollment.js) together with the course soft-delete of            *)
(* routes/courses.js, which decides whether a course accepts enrollments.   *)
(*                                                                          *)
(* The document store is a sequence of Enrollment documents (the _id of a   *)
(* document is its position) and a table of Course documents.  A request    *)
(* carries the principal the auth middleware resolved, the route parameter  *)
(* and the body fields that passed express-validator; every handler reads   *)
(* the wall clock once per request.                                         *)
(***************************************************************************)
EXTENDS Integers, Sequences, FiniteSets, TLC

(***************************************************************************)
(* Bounds of the model.                                                     *)
(***************************************************************************)
\* wall-clock readings are 1..MaxTime
MaxTime == 2
\* lecture ids are 1..MaxLectures (one more than the ten that give 100%)
MaxLectures == 11
\* requests that may be in flight at once in the interleaved specification
MaxInFlight == 2
\* lectures whose requests report a time spent (SpecProgress)
MaxTimedLectures == 2

(***************************************************************************)
(* Program constants.                                                       *)
(***************************************************************************)
\* Enrollment.js:204  completedLectures.length * 10
LectureShare == 10
\* Enrollment.js:204  Math.min(100, ...), Enrollment.js:35 max, :171, :210
FullProgress == 100
\* Enrollment.js:34  min: [0, ...]; Enrollment.js:33 default
MinProgress == 0
\* a Date field that was never assigned (Enrollment.js:23-25, 64, 114, 136)
NoDate == 0

Times == 1..MaxTime
Lectures == 1..MaxLectures

Students == {"s1", "s2"}
Admins == {"admin"}
Principals == Students \cup Admins

\* ids a request may name; "c4" names no Course document
CourseIds == {"c1", "c2", "c3", "c4"}
\* ids a request may name in /:id; ids beyond Len(enrollments) name no document
EnrollmentIds == 1..2

PaymentMethods == {"credit_card"}
TransactionIds == {"txn-1"}

\* an absent optional value (undefined in the source)
Undefined == "undefined"

Min(a, b) == IF a < b THEN a ELSE b

VARIABLES
    courses,      \* Course documents by id: status, price, instructor, enrollmentCount
    enrollments,  \* Enrollment documents, _id = position
    res,          \* the response of the last request that completed
    inflight,     \* requests suspended at an await (interleaved specification only)
    users         \* User documents by id: role, isActive, isDeleted

vars == <<courses, enrollments, res, inflight, users>>

(***************************************************************************)
(* models/Enrollment.js: the schema.                                        *)
(***************************************************************************)
\* an Enrollment built without payment.status, which then takes the schema
\* default 'pending' (Enrollment.js:89)
NewEnrollment_defaultPayment(student, course, courseDoc, method, txn, now) ==
    [ student           |-> student,
      course            |-> course,
      instructor        |-> courseDoc.instructor,
      completionDate    |-> NoDate,
      status            |-> "active",
      progress          |-> MinProgress,
      completedLectures |-> << >>,
      lastAccessed      |-> now,
      certificate       |-> [ issued        |-> FALSE,
                              issuedAt      |-> NoDate,
                              certificateId |-> << >>,
                              downloadUrl   |-> << >> ],
      payment           |-> [ amount        |-> courseDoc.price,
                              currency      |-> courseDoc.currency,
                              method        |-> method,
                              transactionId |-> txn,
                              status        |-> "pending" ],
      rating            |-> [ given      |-> FALSE,
                              rating     |-> << >>,
                              review     |-> Undefined,
                              reviewedAt |-> NoDate ],
      refundRequested   |-> FALSE,
      refundReason      |-> Undefined,
      refundStatus      |-> "none",
      refundProcessedAt |-> NoDate,
      refundAmount      |-> << >> ]

\* new Enrollment({student, course, instructor, payment}) with the schema defaults
NewEnrollment(student, course, courseDoc, method, txn, now) ==
    [ student           |-> student,
      course            |-> course,
      instructor        |-> courseDoc.instructor,
      completionDate    |-> NoDate,
      status            |-> "active",
      progress          |-> MinProgress,
      completedLectures |-> << >>,
      lastAccessed      |-> now,
      certificate       |-> [ issued        |-> FALSE,
                              issuedAt      |-> NoDate,
                              certificateId |-> << >>,
                              downloadUrl   |-> << >> ],
      payment           |-> [ amount        |-> courseDoc.price,
                              currency      |-> courseDoc.currency,
                              method        |-> method,
                              transactionId |-> txn,
                              status        |-> "completed" ],
      rating            |-> [ given      |-> FALSE,
                              rating     |-> << >>,
                              review     |-> Undefined,
                              reviewedAt |-> NoDate ],
      refundRequested   |-> FALSE,
      refundReason      |-> Undefined,
      refundStatus      |-> "none",
      refundProcessedAt |-> NoDate,
      refundAmount      |-> << >> ]

\* the validators of the schema that a handler can trip: progress min/max
SchemaValid(doc) ==
    /\ doc.progress >= MinProgress
    /\ doc.progress <= FullProgress
    /\ doc.status \in {"active", "completed", "cancelled", "expired"}
    /\ doc.refundStatus \in {"none", "pending", "approved", "rejected"}

\* a collection without the unique index
UniqueIndexFree_noIndex(docs, student, course) == TRUE

\* enrollmentSchema.index({student: 1, course: 1}, {unique: true})
UniqueIndexFree(docs, student, course) ==
    \A i \in DOMAIN docs : ~(docs[i].student = student /\ docs[i].course = course)

\* a pre-save hook that forgets the status test and stamps at every save
preSave_restamp(doc, now) ==
    IF doc.progress = FullProgress
    THEN [doc EXCEPT !.status = "completed", !.completionDate = now]
    ELSE doc

\* enrollmentSchema.pre('save')
preSave(doc, now) ==
    IF doc.progress = FullProgress /\ doc.status # "completed"
    THEN [doc EXCEPT !.status = "completed", !.completionDate = now]
    ELSE doc

\* document.save(): validation, then the pre-save hook, then the write.
\* The result is the document as stored, or ok = FALSE when validation throws.
save(doc, now) ==
    IF SchemaValid(doc)
    THEN [ok |-> TRUE, doc |-> preSave(doc, now)]
    ELSE [ok |-> FALSE, doc |-> doc]

\* middleware/auth.js authorize(...roles): the principal's role is one of roles
RoleOf(p) == IF p \in Admins THEN "admin" ELSE "student"

authorize(roles, p) == RoleOf(p) \in roles

(***************************************************************************)
(* Initial state: an empty Enrollment collection and three courses, two     *)
(* published and one still a draft.                                         *)
(***************************************************************************)
InitCourses ==
    [ c \in {"c1", "c2", "c3"} |->
        [ status          |-> IF c = "c3" THEN "draft" ELSE "published",
          price           |-> IF c = "c1" THEN 49 ELSE 20,
          currency        |-> "USD",
          instructor      |-> IF c = "c1" THEN "i1" ELSE "i2",
          enrollmentCount |-> 0 ] ]

\* res.status(code).json({message}); id is the enrollment the request named
\* or created, 0 when there is none
Response(op, code, msg, id) == [op |-> op, code |-> code, msg |-> msg, id |-> id]

NoResponse == Response("none", 0, "none", 0)

\* the request slots of the interleaved specification
Requests == 1..MaxInFlight

Idle == [pc |-> "idle"]

\* the users: two students, two instructors and the admin, all active
UserIds == {"s1", "s2", "i1", "i2", "admin"}

InitUsers ==
    [ u \in UserIds |->
        [ role      |-> IF u \in Admins THEN "admin"
                        ELSE IF u \in {"i1", "i2"} THEN "instructor" ELSE "student",
          isActive  |-> TRUE,
          isDeleted |-> FALSE ] ]

Init ==
    /\ courses = InitCourses
    /\ enrollments = << >>
    /\ res = NoResponse
    /\ inflight = [r \in Requests |-> Idle]
    /\ users = InitUsers

(***************************************************************************)
(* routes/enrollments.js  POST /  (enroll), run to completion.              *)
(***************************************************************************)
\* Enrollment.findOne({student, course})
findOne(docs, student, course) ==
    {i \in DOMAIN docs : docs[i].student = student /\ docs[i].course = course}

\* POST / without the findOne for an existing enrollment
EnrollOutcome_noLookup(docs, courseDocs, p, c) ==
    IF c \notin DOMAIN courseDocs THEN "not_found"
    ELSE IF courseDocs[c].status # "published" THEN "not_published"
    ELSE "ok"

\* POST / without the test of course.status
EnrollOutcome_anyStatus(docs, courseDocs, p, c) ==
    IF c \notin DOMAIN courseDocs THEN "not_found"
    ELSE IF findOne(docs, p, c) # {} THEN "duplicate"
    ELSE "ok"

\* the checks of POST / in the order the handler makes them
EnrollOutcome(docs, courseDocs, p, c) ==
    IF c \notin DOMAIN courseDocs THEN "not_found"
    ELSE IF courseDocs[c].status # "published" THEN "not_published"
    ELSE IF findOne(docs, p, c) # {} THEN "duplicate"
    ELSE "ok"

EnrollFailure(outcome) ==
    CASE outcome = "not_found"     -> Response("enroll", 404, "Course not found", 0)
      [] outcome = "not_published" -> Response("enroll", 400, "Course is not available for enrollment", 0)
      [] outcome = "duplicate"     -> Response("enroll", 400, "You are already enrolled in this course", 0)

\* the catch of POST /: a save refused by the unique index throws
EnrollError == Response("enroll", 500, "Server error while enrolling in course", 0)

PostEnroll(p, c, method, txn) ==
    /\ LET outcome == EnrollOutcome(enrollments, courses, p, c)
       IN IF outcome # "ok"
          THEN /\ res' = EnrollFailure(outcome)
               /\ UNCHANGED <<courses, enrollments>>
          ELSE IF ~UniqueIndexFree(enrollments, p, c)
          THEN /\ res' = EnrollError
               /\ UNCHANGED <<courses, enrollments>>
          ELSE \E now \in Times :
               /\ enrollments' = Append(enrollments,
                                        NewEnrollment(p, c, courses[c], method, txn, now))
               /\ courses' = [courses EXCEPT ![c].enrollmentCount = @ + 1]
               /\ res' = Response("enroll", 201, "Successfully enrolled in course",
                                  Len(enrollments) + 1)
    /\ UNCHANGED inflight
    /\ UNCHANGED users

(***************************************************************************)
(* models/Enrollment.js: the instance methods.  Each returns what save()    *)
(* returns, or ok = FALSE when the method throws before saving.             *)
(***************************************************************************)
\* an updateProgress that takes a course to have twenty lectures
updateProgress_twentyLectures(doc) ==
    IF Len(doc.completedLectures) > 0
    THEN [doc EXCEPT !.progress = Min(FullProgress, Len(doc.completedLectures) * 5)]
    ELSE doc

\* enrollmentSchema.methods.updateProgress
updateProgress(doc) ==
    IF Len(doc.completedLectures) > 0
    THEN [doc EXCEPT !.progress = Min(FullProgress, Len(doc.completedLectures) * LectureShare)]
    ELSE doc

\* completedLectures.findIndex(cl => cl.lecture.toString() === lectureId.toString())
findLecture(doc, lectureId) ==
    {i \in DOMAIN doc.completedLectures : doc.completedLectures[i].lecture = lectureId}

\* a completeLecture that adds the time spent to the entry it finds
pushLecture_accumulate(doc, lectureId, timeSpent) ==
    IF findLecture(doc, lectureId) = {}
    THEN [doc EXCEPT !.completedLectures =
              Append(@, [lecture |-> lectureId, timeSpent |-> timeSpent])]
    ELSE [doc EXCEPT !.completedLectures =
              [a \in DOMAIN @ |->
                  IF @[a].lecture = lectureId
                  THEN [@[a] EXCEPT !.timeSpent = @ + timeSpent]
                  ELSE @[a]]]

\* a completeLecture that toggles: a lecture already there is taken out again
pushLecture_toggle(doc, lectureId, timeSpent) ==
    IF findLecture(doc, lectureId) = {}
    THEN [doc EXCEPT !.completedLectures =
              Append(@, [lecture |-> lectureId, timeSpent |-> timeSpent])]
    ELSE [doc EXCEPT !.completedLectures =
              SelectSeq(@, LAMBDA cl : cl.lecture # lectureId)]

\* the push of completeLecture, guarded by existingIndex === -1
pushLecture(doc, lectureId, timeSpent) ==
    IF findLecture(doc, lectureId) = {}
    THEN [doc EXCEPT !.completedLectures =
              Append(@, [lecture |-> lectureId, timeSpent |-> timeSpent])]
    ELSE doc

\* a completeLecture that computes length * 10 without the cap and writes it
\* with an update that runs no validators
completeLecture_uncapped(doc, lectureId, timeSpent, now) ==
    LET d == pushLecture(doc, lectureId, timeSpent)
    IN [ ok  |-> TRUE,
         doc |-> preSave([d EXCEPT !.progress = Len(d.completedLectures) * LectureShare,
                                   !.lastAccessed = now], now) ]

\* enrollmentSchema.methods.completeLecture
completeLecture(doc, lectureId, timeSpent, now) ==
    save([updateProgress(pushLecture(doc, lectureId, timeSpent)) EXCEPT !.lastAccessed = now], now)

\* an identifier made of the issuance time alone
CertificateId_timeOnly(id, now) == <<"CERT-", now>>

\* `CERT-${this._id}-${Date.now()}`
CertificateId(id, now) == <<"CERT-", id, "-", now>>

\* `/certificates/${this.certificate.certificateId}`
DownloadUrl(certificateId) == <<"/certificates/">> \o certificateId

\* a guard that forgets !this.certificate.issued
canIssueCertificate_reissue(doc) ==
    doc.progress = FullProgress

\* the guard of issueCertificate
canIssueCertificate(doc) ==
    doc.progress = FullProgress /\ ~doc.certificate.issued

\* enrollmentSchema.methods.issueCertificate
issueCertificate(doc, id, now) ==
    IF canIssueCertificate(doc)
    THEN save([doc EXCEPT !.certificate =
                  [ issued        |-> TRUE,
                    issuedAt      |-> now,
                    certificateId |-> CertificateId(id, now),
                    downloadUrl   |-> DownloadUrl(CertificateId(id, now)) ]], now)
    ELSE [ok |-> FALSE, doc |-> doc]

\* a requestRefund without the test of refundRequested
requestRefund_again(doc, reason, now) ==
    save([doc EXCEPT !.refundRequested = TRUE,
                     !.refundReason = reason,
                     !.refundStatus = "pending"], now)

\* enrollmentSchema.methods.requestRefund
requestRefund(doc, reason, now) ==
    IF doc.refundRequested
    THEN [ok |-> FALSE, doc |-> doc]
    ELSE save([doc EXCEPT !.refundRequested = TRUE,
                          !.refundReason = reason,
                          !.refundStatus = "pending"], now)

(***************************************************************************)
(* routes/enrollments.js: the handlers on one enrollment, run to            *)
(* completion.  Every one of them looks the document up, checks the         *)
(* caller, changes the document in memory and saves it.                     *)
(***************************************************************************)
\* Enrollment.findById(req.params.id) found nothing
Missing(id) == id \notin DOMAIN enrollments

\* a handler without the test of the caller
NotOwner_nobody(p, id) == FALSE

\* enrollment.student.toString() !== req.user.userId
NotOwner(p, id) == enrollments[id].student # p

Store(id, doc) == enrollments' = [enrollments EXCEPT ![id] = doc]

\* GET /:id: the document is read and sent, nothing is written
GetEnrollment(p, id) ==
    /\ IF Missing(id)
       THEN res' = Response("get", 404, "Enrollment not found", id)
       ELSE IF NotOwner(p, id)
       THEN res' = Response("get", 403, "Not authorized to view this enrollment", id)
       ELSE res' = Response("get", 200, Undefined, id)
    /\ UNCHANGED <<courses, enrollments, inflight>>
    /\ UNCHANGED users

\* PUT /:id/progress
PutProgress(p, id, lectureId, timeSpent) ==
    /\ IF Missing(id)
       THEN /\ res' = Response("progress", 404, "Enrollment not found", id)
            /\ UNCHANGED enrollments
       ELSE IF NotOwner(p, id)
       THEN /\ res' = Response("progress", 403, "Not authorized to update this enrollment", id)
            /\ UNCHANGED enrollments
       ELSE \E now \in Times :
            LET r == completeLecture(enrollments[id], lectureId, timeSpent, now)
            IN IF r.ok
               THEN /\ Store(id, r.doc)
                    /\ res' = Response("progress", 200, "Progress updated successfully", id)
               ELSE /\ res' = Response("progress", 500, "Server error while updating progress", id)
                    /\ UNCHANGED enrollments
    /\ UNCHANGED <<courses, inflight>>
    /\ UNCHANGED users

\* POST /:id/review without the test of rating.given
PostReview_noGivenCheck(p, id, rating, review) ==
    /\ IF Missing(id)
       THEN /\ res' = Response("review", 404, "Enrollment not found", id)
            /\ UNCHANGED enrollments
       ELSE IF NotOwner(p, id)
       THEN /\ res' = Response("review", 403, "Not authorized to review this course", id)
            /\ UNCHANGED enrollments
       ELSE \E now \in Times :
            LET r == save([enrollments[id] EXCEPT !.rating =
                              [ given      |-> TRUE,
                                rating     |-> rating,
                                review     |-> review,
                                reviewedAt |-> now ]], now)
            IN /\ Store(id, r.doc)
               /\ res' = Response("review", 500, "Server error while adding review", id)
    /\ UNCHANGED <<courses, inflight>>
    /\ UNCHANGED users

\* POST /:id/review.  The document was loaded without populate, so
\* enrollment.course is an ObjectId: the call enrollment.course.addReview(...)
\* after the save throws a TypeError, which the catch answers with 500.
PostReview(p, id, rating, review) ==
    /\ IF Missing(id)
       THEN /\ res' = Response("review", 404, "Enrollment not found", id)
            /\ UNCHANGED enrollments
       ELSE IF NotOwner(p, id)
       THEN /\ res' = Response("review", 403, "Not authorized to review this course", id)
            /\ UNCHANGED enrollments
       ELSE IF enrollments[id].rating.given
       THEN /\ res' = Response("review", 400, "You have already reviewed this course", id)
            /\ UNCHANGED enrollments
       ELSE \E now \in Times :
            LET r == save([enrollments[id] EXCEPT !.rating =
                              [ given      |-> TRUE,
                                rating     |-> rating,
                                review     |-> review,
                                reviewedAt |-> now ]], now)
            IN /\ IF r.ok THEN Store(id, r.doc) ELSE UNCHANGED enrollments
               /\ res' = Response("review", 500, "Server error while adding review", id)
    /\ UNCHANGED <<courses, inflight>>
    /\ UNCHANGED users

\* POST /:id/certificate
PostCertificate(p, id) ==
    /\ IF Missing(id)
       THEN /\ res' = Response("certificate", 404, "Enrollment not found", id)
            /\ UNCHANGED enrollments
       ELSE IF NotOwner(p, id)
       THEN /\ res' = Response("certificate", 403, "Not authorized to access this certificate", id)
            /\ UNCHANGED enrollments
       ELSE \E now \in Times :
            LET r == issueCertificate(enrollments[id], id, now)
            IN IF r.ok
               THEN /\ Store(id, r.doc)
                    /\ res' = Response("certificate", 200, "Certificate issued successfully", id)
               ELSE /\ res' = Response("certificate", 500,
                                       "Cannot issue certificate: course not completed or already issued", id)
                    /\ UNCHANGED enrollments
    /\ UNCHANGED <<courses, inflight>>
    /\ UNCHANGED users

\* POST /:id/refund
PostRefund(p, id, reason) ==
    /\ IF Missing(id)
       THEN /\ res' = Response("refund", 404, "Enrollment not found", id)
            /\ UNCHANGED enrollments
       ELSE IF NotOwner(p, id)
       THEN /\ res' = Response("refund", 403, "Not authorized to request refund for this enrollment", id)
            /\ UNCHANGED enrollments
       ELSE \E now \in Times :
            LET r == requestRefund(enrollments[id], reason, now)
            IN IF r.ok
               THEN /\ Store(id, r.doc)
                    /\ res' = Response("refund", 200, "Refund request submitted successfully", id)
               ELSE /\ res' = Response("refund", 500, "Refund already requested", id)
                    /\ UNCHANGED enrollments
    /\ UNCHANGED <<courses, inflight>>
    /\ UNCHANGED users

\* if (refundAmount): absent and 0 are both falsy
Truthy(amount) == amount # << >> /\ amount # <<0>>

\* PUT /:id/refund-status on a route without authorize('admin')
PutRefundStatus_anyCaller(p, id, refundStatus, refundAmount) ==
    /\ IF Missing(id)
       THEN /\ res' = Response("refundStatus", 404, "Enrollment not found", id)
            /\ UNCHANGED enrollments
       ELSE \E now \in Times :
            LET r == save([enrollments[id] EXCEPT
                              !.refundStatus = refundStatus,
                              !.refundAmount = IF Truthy(refundAmount) THEN refundAmount ELSE @,
                              !.refundProcessedAt = now], now)
            IN /\ Store(id, r.doc)
               /\ res' = Response("refundStatus", 200, "Refund status updated successfully", id)
    /\ UNCHANGED <<courses, inflight>>
    /\ UNCHANGED users

\* PUT /:id/refund-status, behind authorize('admin')
PutRefundStatus(p, id, refundStatus, refundAmount) ==
    /\ IF ~authorize({"admin"}, p)
       THEN /\ res' = Response("refundStatus", 403, "Forbidden", 0)
            /\ UNCHANGED enrollments
       ELSE IF Missing(id)
       THEN /\ res' = Response("refundStatus", 404, "Enrollment not found", id)
            /\ UNCHANGED enrollments
       ELSE \E now \in Times :
            LET r == save([enrollments[id] EXCEPT
                              !.refundStatus = refundStatus,
                              !.refundAmount = IF Truthy(refundAmount) THEN refundAmount ELSE @,
                              !.refundProcessedAt = now], now)
            IN IF r.ok
               THEN /\ Store(id, r.doc)
                    /\ res' = Response("refundStatus", 200, "Refund status updated successfully", id)
               ELSE /\ res' = Response("refundStatus", 500, "Server error while updating refund status", id)
                    /\ UNCHANGED enrollments
    /\ UNCHANGED <<courses, inflight>>
    /\ UNCHANGED users

(***************************************************************************)
(* routes/courses.js  DELETE /:id  (soft delete): the course's instructor   *)
(* or an admin marks the course archived.                                   *)
(***************************************************************************)
DeleteCourse(p, c) ==
    /\ IF c \notin DOMAIN courses
       THEN /\ res' = Response("deleteCourse", 404, "Course not found", 0)
            /\ UNCHANGED courses
       ELSE IF courses[c].instructor # p /\ RoleOf(p) # "admin"
       THEN /\ res' = Response("deleteCourse", 403, "Not authorized to delete this course", 0)
            /\ UNCHANGED courses
       ELSE /\ courses' = [courses EXCEPT ![c].status = "archived"]
            /\ res' = Response("deleteCourse", 200, "Course deleted successfully", 0)
    /\ UNCHANGED <<enrollments, inflight>>
    /\ UNCHANGED users

(***************************************************************************)
(* The service, one request at a time.                                      *)
(***************************************************************************)
\* a lecture already completed, or the next new one (lecture ids are opaque
\* and only compared for equality, so new lectures are numbered in the order
\* of their first completion)
LectureChoices(id) ==
    IF id \in DOMAIN enrollments
    THEN 1..Min(Len(enrollments[id].completedLectures) + 1, MaxLectures)
    ELSE {1}

\* the first lecture once more, or the next new one
FirstOrNext(id) ==
    IF id \in DOMAIN enrollments
    THEN {1, Min(Len(enrollments[id].completedLectures) + 1, MaxLectures)}
    ELSE {1}

Reasons == {"not satisfied with pacing"}
RefundStatuses == {"approved", "rejected"}
RefundAmounts == {<<49>>}
Ratings == {<<5>>}
Reviews == {Undefined}

\* Spec: student s1 enrolls and every operation of the service is called on
\* the enrollment, by its student, by another student and by the admin.
Next ==
    \/ \E c \in {"c1", "c3", "c4"}, m \in PaymentMethods, x \in TransactionIds :
          PostEnroll("s1", c, m, x)
    \/ \E p \in Students, id \in EnrollmentIds :
          \E l \in FirstOrNext(id) : PutProgress(p, id, l, 0)
    \/ \E p \in Students, id \in EnrollmentIds : PostCertificate(p, id)
    \/ \E p \in Students, id \in EnrollmentIds, r \in Reasons : PostRefund(p, id, r)
    \/ \E p \in {"s1", "admin"}, id \in EnrollmentIds, s \in RefundStatuses, a \in RefundAmounts :
          PutRefundStatus(p, id, s, a)
    \/ \E p \in Students, id \in EnrollmentIds, r \in Ratings, v \in Reviews :
          PostReview(p, id, r, v)

Spec == Init /\ [][Next]_vars

(***************************************************************************)
(* POST / step by step: the handler is suspended at each await, and other   *)
(* requests run in between.  inflight[r] holds what the suspended handler   *)
(* keeps in its local variables.                                            *)
(***************************************************************************)
Answer(r, response) ==
    /\ res' = response
    /\ inflight' = [inflight EXCEPT ![r] = Idle]

\* the request arrives; the handler runs up to `await Course.findById(courseId)`
EnrollReceive(r, p, c, method, txn) ==
    /\ inflight[r] = Idle
    /\ inflight' = [inflight EXCEPT ![r] =
                       [pc |-> "findById", student |-> p, course |-> c,
                        method |-> method, txn |-> txn]]
    /\ UNCHANGED <<courses, enrollments, res>>
    /\ UNCHANGED users

\* Course.findById resolves; the 404 and the 400 for an unpublished course;
\* otherwise up to `await Enrollment.findOne(...)`
EnrollFindById(r) ==
    /\ inflight[r].pc = "findById"
    /\ LET c == inflight[r].course
       IN IF c \notin DOMAIN courses
          THEN Answer(r, EnrollFailure("not_found"))
          ELSE IF courses[c].status # "published"
          THEN Answer(r, EnrollFailure("not_published"))
          ELSE /\ inflight' = [inflight EXCEPT ![r] =
                                  [pc |-> "findOne", student |-> inflight[r].student,
                                   course |-> c, method |-> inflight[r].method,
                                   txn |-> inflight[r].txn, courseDoc |-> courses[c]]]
               /\ UNCHANGED res
    /\ UNCHANGED <<courses, enrollments>>
    /\ UNCHANGED users

\* Enrollment.findOne resolves; the 400 for an existing enrollment; otherwise
\* the document is built and the handler runs up to `await enrollment.save()`
EnrollFindOne(r) ==
    /\ inflight[r].pc = "findOne"
    /\ IF findOne(enrollments, inflight[r].student, inflight[r].course) # {}
       THEN Answer(r, EnrollFailure("duplicate"))
       ELSE /\ inflight' = [inflight EXCEPT ![r].pc = "saveEnrollment"]
            /\ UNCHANGED res
    /\ UNCHANGED <<courses, enrollments>>
    /\ UNCHANGED users

\* enrollment.save() resolves, or is refused by the unique index and the catch
\* answers 500; otherwise up to `await course.save()`
EnrollSave(r) ==
    /\ inflight[r].pc = "saveEnrollment"
    /\ LET q == inflight[r]
       IN IF ~UniqueIndexFree(enrollments, q.student, q.course)
          THEN /\ Answer(r, EnrollError)
               /\ UNCHANGED enrollments
          ELSE \E now \in Times :
               /\ enrollments' = Append(enrollments,
                                        NewEnrollment(q.student, q.course, q.courseDoc,
                                                      q.method, q.txn, now))
               /\ inflight' = [inflight EXCEPT ![r] =
                                  [pc |-> "saveCourse", course |-> q.course,
                                   courseDoc |-> q.courseDoc,
                                   id |-> Len(enrollments) + 1]]
               /\ UNCHANGED res
    /\ UNCHANGED courses
    /\ UNCHANGED users

\* course.enrollmentCount += 1 on the document read at the start, and
\* course.save() resolves; up to `await enrollment.populate(...)`
EnrollSaveCourse(r) ==
    /\ inflight[r].pc = "saveCourse"
    /\ courses' = [courses EXCEPT ![inflight[r].course].enrollmentCount =
                       inflight[r].courseDoc.enrollmentCount + 1]
    /\ inflight' = [inflight EXCEPT ![r] = [pc |-> "populate", id |-> inflight[r].id]]
    /\ UNCHANGED <<enrollments, res>>
    /\ UNCHANGED users

\* populate resolves and the 201 is sent
EnrollRespond(r) ==
    /\ inflight[r].pc = "populate"
    /\ Answer(r, Response("enroll", 201, "Successfully enrolled in course", inflight[r].id))
    /\ UNCHANGED <<courses, enrollments>>
    /\ UNCHANGED users

\* SpecRace: enroll requests of both students, interleaved at the awaits
NextRace ==
    \/ \E r \in Requests, p \in Students, c \in {"c1", "c3", "c4"},
          m \in PaymentMethods, x \in TransactionIds : EnrollReceive(r, p, c, m, x)
    \/ \E r \in Requests : EnrollFindById(r)
    \/ \E r \in Requests : EnrollFindOne(r)
    \/ \E r \in Requests : EnrollSave(r)
    \/ \E r \in Requests : EnrollSaveCourse(r)
    \/ \E r \in Requests : EnrollRespond(r)

SpecRace == Init /\ [][NextRace]_vars

\* C1: in every reachable state, interleaved enroll requests included, no two
\* enrollment records have the same (student, course) pair.
C1_OneEnrollmentPerStudentAndCourse ==
    \A i, j \in DOMAIN enrollments :
        (enrollments[i].student = enrollments[j].student
            /\ enrollments[i].course = enrollments[j].course) => i = j

\* two requests of one student for one course both passed findOne; the first
\* save stored the record and the second was refused by the index
C1_Witness ==
    /\ res = EnrollError
    /\ \E i \in DOMAIN enrollments :
          /\ enrollments[i].student = "s1"
          /\ enrollments[i].course = "c1"
    /\ \E r \in Requests : inflight[r].pc = "saveCourse"

\* no refund or review activity on the document
Untouched(doc) ==
    /\ ~doc.refundRequested
    /\ doc.refundStatus = "none"
    /\ ~doc.rating.given

\* SpecPair: as Spec, and a second student, s2, enrolls in the same course;
\* both complete lectures and ask for certificates.  s2 enrolls while the
\* first enrollment has no refund or review activity, and refund and review
\* requests arrive only while s1's is the only enrollment.
NextPair ==
    \/ \E c \in {"c1", "c3", "c4"}, m \in PaymentMethods, x \in TransactionIds :
          PostEnroll("s1", c, m, x)
    \/ \E m \in PaymentMethods, x \in TransactionIds :
          /\ Len(enrollments) = 1
          /\ Untouched(enrollments[1])
          /\ PostEnroll("s2", "c1", m, x)
    \/ \E p \in Students, id \in EnrollmentIds :
          \E l \in FirstOrNext(id) : PutProgress(p, id, l, 0)
    \/ \E p \in Students, id \in EnrollmentIds : PostCertificate(p, id)
    \/ \E r \in Reasons :
          /\ Len(enrollments) = 1
          /\ PostRefund("s1", 1, r)
    \/ \E s \in RefundStatuses, a \in RefundAmounts :
          /\ Len(enrollments) = 1
          /\ PutRefundStatus("admin", 1, s, a)
    \/ \E r \in Ratings, v \in Reviews :
          /\ Len(enrollments) = 1
          /\ PostReview("s1", 1, r, v)

SpecPair == Init /\ [][NextPair]_vars

(***************************************************************************)
(* Properties of the certificate, checked under SpecPair.                   *)
(***************************************************************************)
C10_CertificateKept ==
    \A i \in DOMAIN enrollments :
        enrollments[i].certificate.issued =>
            /\ i \in DOMAIN enrollments'
            /\ enrollments'[i].certificate.issued
            /\ enrollments'[i].certificate.certificateId =
                   enrollments[i].certificate.certificateId
            /\ enrollments'[i].certificate.issuedAt = enrollments[i].certificate.issuedAt
            /\ enrollments'[i].certificate.downloadUrl =
                   enrollments[i].certificate.downloadUrl

C10_CertificateIdsDiffer ==
    \A i, j \in DOMAIN enrollments :
        ( /\ i # j
          /\ enrollments[i].certificate.issued
          /\ enrollments[j].certificate.issued ) =>
            enrollments[i].certificate.certificateId #
                enrollments[j].certificate.certificateId

\* C10: once an enrollment's certificate.issued is true, it stays true and
\* certificateId, issuedAt and downloadUrl never change under any later
\* request of the service; and no two enrollments ever hold the same
\* certificateId.
C10_CertificateStableAndUnique ==
    []C10_CertificateIdsDiffer /\ [][C10_CertificateKept]_vars

\* two enrollments whose certificates were issued at the same clock reading,
\* one of them saved again later
C10_Witness ==
    \E i, j \in DOMAIN enrollments :
        /\ i # j
        /\ enrollments[i].certificate.issued
        /\ enrollments[j].certificate.issued
        /\ enrollments[i].certificate.issuedAt = enrollments[j].certificate.issuedAt
        /\ enrollments[i].lastAccessed # enrollments[i].certificate.issuedAt
        /\ res = Response("progress", 200, "Progress updated successfully", i)

\* SpecEnroll: both students enroll in a published, a draft and a missing
\* course, and s2 in a second published course of another price and
\* instructor, while courses are archived and refunds are requested on the
\* enrollments made.
NextEnroll ==
    \/ \E p \in Students, c \in {"c1", "c3", "c4"},
          m \in PaymentMethods, x \in TransactionIds : PostEnroll(p, c, m, x)
    \/ \E m \in PaymentMethods, x \in TransactionIds : PostEnroll("s2", "c2", m, x)
    \/ \E p \in {"s1", "i1", "admin"}, c \in {"c1", "c3", "c4"} : DeleteCourse(p, c)
    \/ \E p \in Students, id \in EnrollmentIds, r \in Reasons : PostRefund(p, id, r)

SpecEnroll == Init /\ [][NextEnroll]_vars

(***************************************************************************)
(* Properties of enroll, checked under SpecEnroll.                          *)
(***************************************************************************)
Enrolled(p, c) ==
    \E i \in DOMAIN enrollments :
        enrollments[i].student = p /\ enrollments[i].course = c

\* C2 as stated: once enroll(S, C, ...) has succeeded, every later
\* enroll(S, C, ...) fails with Conflict (400 'already enrolled'), creates no
\* record and does not increment the course's enrollment counter.
C2_LaterEnrollIsConflict ==
    [][\A p \in Students, c \in CourseIds, m \in PaymentMethods, x \in TransactionIds :
          (Enrolled(p, c) /\ PostEnroll(p, c, m, x)) =>
              /\ res'.code = 400
              /\ res'.msg = "You are already enrolled in this course"
              /\ enrollments' = enrollments
              /\ courses' = courses]_vars

\* C2 amended: once enroll(S, C, ...) has succeeded, every later
\* enroll(S, C, ...) fails with status 400, creates no record and does not
\* increment the course's enrollment counter; the failure is Conflict
\* ('already enrolled') while the course is still published and InvalidState
\* ('not available for enrollment') once the course is no longer published.
C2_LaterEnrollFailsWith400 ==
    [][\A p \in Students, c \in CourseIds, m \in PaymentMethods, x \in TransactionIds :
          (Enrolled(p, c) /\ PostEnroll(p, c, m, x)) =>
              /\ res'.code = 400
              /\ res'.msg = IF courses[c].status = "published"
                            THEN "You are already enrolled in this course"
                            ELSE "Course is not available for enrollment"
              /\ enrollments' = enrollments
              /\ courses' = courses]_vars

\* a second enroll that was answered 'already enrolled', on an enrollment
\* that was changed since it was made
C2_Witness ==
    /\ res = Response("enroll", 400, "You are already enrolled in this course", 0)
    /\ \E i \in DOMAIN enrollments : enrollments[i].refundRequested

\* C3: enroll fails with NotFound (404) when the course does not exist and
\* with InvalidState (400) when the course exists but its status is not
\* 'published'; in both cases no Enrollment record is created and the
\* course's enrollment counter is unchanged.
C3_EnrollNeedsPublishedCourse ==
    [][\A p \in Students, c \in CourseIds, m \in PaymentMethods, x \in TransactionIds :
          PostEnroll(p, c, m, x) =>
              /\ c \notin DOMAIN courses =>
                     /\ res'.code = 404
                     /\ enrollments' = enrollments
                     /\ courses' = courses
              /\ (c \in DOMAIN courses /\ courses[c].status # "published") =>
                     /\ res'.code = 400
                     /\ res'.msg = "Course is not available for enrollment"
                     /\ enrollments' = enrollments
                     /\ courses' = courses]_vars

\* an enroll refused because the course, which took enrollments before, is
\* no longer published
C3_Witness ==
    /\ res = Response("enroll", 400, "Course is not available for enrollment", 0)
    /\ \E c \in DOMAIN courses :
           courses[c].status = "archived" /\ courses[c].enrollmentCount > 0

\* C4: a successful enroll(S, C, method, txn) creates exactly one Enrollment
\* for (S, C) with status = active, progress = 0, payment.status = completed,
\* payment.amount = the course's price and instructor = the course's
\* instructor, and increases the course's enrollment counter by exactly 1.
C4_EnrollCreatesOneActiveEnrollment ==
    [][\A p \in Students, c \in CourseIds, m \in PaymentMethods, x \in TransactionIds :
          (PostEnroll(p, c, m, x) /\ res'.code = 201) =>
              LET new == enrollments'[Len(enrollments')]
              IN /\ Len(enrollments') = Len(enrollments) + 1
                 /\ SubSeq(enrollments', 1, Len(enrollments)) = enrollments
                 /\ Cardinality({i \in DOMAIN enrollments' :
                        enrollments'[i].student = p /\ enrollments'[i].course = c}) = 1
                 /\ new.student = p
                 /\ new.course = c
                 /\ new.status = "active"
                 /\ new.progress = 0
                 /\ new.payment.status = "completed"
                 /\ new.payment.amount = courses[c].price
                 /\ new.payment.method = m
                 /\ new.payment.transactionId = x
                 /\ new.instructor = courses[c].instructor
                 /\ courses'[c].enrollmentCount = courses[c].enrollmentCount + 1
                 /\ \A d \in DOMAIN courses \ {c} : courses'[d] = courses[d]
                 /\ DOMAIN courses' = DOMAIN courses]_vars

\* two successful enrolls, in courses of different price and instructor
C4_Witness ==
    /\ res.op = "enroll"
    /\ res.code = 201
    /\ \E i, j \in DOMAIN enrollments :
           /\ enrollments[i].payment.amount # enrollments[j].payment.amount
           /\ enrollments[i].instructor # enrollments[j].instructor

\* SpecProgress: student s1 enrolls in course c1 and lectures are completed
\* in any order of new and repeated lecture ids.  A request for one of the
\* first MaxTimedLectures lectures reports a time spent of 0 or 30 seconds,
\* a request for a later lecture leaves timeSpent at its default.
TimesSpent == {0, 30}

TimeSpentChoices(l) == IF l <= MaxTimedLectures THEN TimesSpent ELSE {0}

NextProgress ==
    \/ \E m \in PaymentMethods, x \in TransactionIds : PostEnroll("s1", "c1", m, x)
    \/ \E p \in Students, id \in EnrollmentIds :
          \E l \in LectureChoices(id) :
              \E t \in TimeSpentChoices(l) : PutProgress(p, id, l, t)

SpecProgress == Init /\ [][NextProgress]_vars

(***************************************************************************)
(* Properties of completeLecture, checked under SpecProgress.               *)
(***************************************************************************)
C8_LectureAtMostOnce ==
    \A i \in DOMAIN enrollments :
        \A a, b \in DOMAIN enrollments[i].completedLectures :
            enrollments[i].completedLectures[a].lecture =
                enrollments[i].completedLectures[b].lecture => a = b

C8_RepeatChangesNothing ==
    res'.op = "progress" =>
        \A id \in DOMAIN enrollments, t \in TimesSpent :
            \A a \in DOMAIN enrollments[id].completedLectures :
                PutProgress(enrollments[id].student, id,
                            enrollments[id].completedLectures[a].lecture, t) =>
                    /\ res'.code = 200
                    /\ enrollments'[id].completedLectures = enrollments[id].completedLectures
                    /\ enrollments'[id].progress = enrollments[id].progress

\* C8: a lecture id appears at most once in completedLectures in every
\* reachable state, and completeLecture called again with a lecture id that
\* is already completed leaves completedLectures (the entry's timeSpent
\* included) and progress unchanged.
C8_CompleteLectureIdempotent ==
    []C8_LectureAtMostOnce /\ [][C8_RepeatChangesNothing]_vars

\* ten lectures were completed in one request and a later request, at another
\* clock reading, completed one of them again: only completeLecture writes
\* lastAccessed, and the save that completed the course wrote both dates
C8_Witness ==
    \E i \in DOMAIN enrollments :
        /\ Len(enrollments[i].completedLectures) = 10
        /\ enrollments[i].completionDate # NoDate
        /\ enrollments[i].lastAccessed # enrollments[i].completionDate
        /\ \E a, b \in DOMAIN enrollments[i].completedLectures :
               enrollments[i].completedLectures[a].timeSpent #
                   enrollments[i].completedLectures[b].timeSpent

(***************************************************************************)
(* Properties of the service, checked under Spec.                           *)
(***************************************************************************)

\* C5: in every state reachable through enroll, completeLecture,
\* issueCertificate, requestRefund, processRefund and addReview, the progress
\* of every Enrollment is within 0..100 inclusive.
C5_ProgressWithinRange ==
    \A i \in DOMAIN enrollments :
        enrollments[i].progress >= 0 /\ enrollments[i].progress <= 100

\* an enrollment with more than ten completed lectures, where length * 10
\* would exceed 100
C5_Witness ==
    \E i \in DOMAIN enrollments :
        Len(enrollments[i].completedLectures) > 10 /\ enrollments[i].progress = 100

\* C6: the stored progress of an Enrollment never decreases: after every
\* request of the service the progress of each enrollment is greater than or
\* equal to the progress stored before it.
C6_ProgressNeverDecreases ==
    [][\A i \in DOMAIN enrollments :
          /\ i \in DOMAIN enrollments'
          /\ enrollments'[i].progress >= enrollments[i].progress]_vars

\* progress was raised and the document was then saved again by a repeated
\* completeLecture, a review and a refund decision
C6_Witness ==
    \E i \in DOMAIN enrollments :
        /\ enrollments[i].progress = 30
        /\ enrollments[i].rating.given
        /\ enrollments[i].refundStatus = "approved"
        /\ res = Response("progress", 200, "Progress updated successfully", i)

C7_StatusFollowsProgress ==
    \A i \in DOMAIN enrollments :
        LET e == enrollments[i]
        IN /\ (e.status = "completed") <=> (e.progress = 100)
           /\ (e.status = "active") <=> (e.progress < 100)
           /\ (e.completionDate # NoDate) <=> (e.progress = 100)

C7_CompletionKept ==
    \A i \in DOMAIN enrollments :
        /\ i \in DOMAIN enrollments'
        /\ enrollments[i].status = "completed" => enrollments'[i].status = "completed"
        /\ enrollments[i].completionDate # NoDate =>
               enrollments'[i].completionDate = enrollments[i].completionDate

\* C7: status changes from active to completed at exactly the save in which
\* progress first equals 100 (status is completed exactly when progress is 100,
\* in the state before and in the state after every request), completionDate
\* is unset before that save and set by it, and no later operation changes
\* completionDate.
C7_CompletedExactlyAtFullProgress ==
    []C7_StatusFollowsProgress /\ [][C7_CompletionKept]_vars

\* a completed enrollment saved again at a clock reading other than the one
\* of its completion
C7_Witness ==
    \E i \in DOMAIN enrollments :
        /\ enrollments[i].status = "completed"
        /\ enrollments[i].certificate.issued
        /\ enrollments[i].certificate.issuedAt # enrollments[i].completionDate

\* C9: issueCertificate called by the enrollment's student succeeds if and
\* only if, beforehand, progress = 100 and certificate.issued = false; a
\* success issues the certificate, a failure changes nothing, and a call that
\* directly follows a successful one on the same enrollment fails.
C9_CertificateIffCompleteAndNotIssued ==
    [][\A id \in DOMAIN enrollments :
          PostCertificate(enrollments[id].student, id) =>
              LET e == enrollments[id]
                  f == enrollments'[id]
                  pre == e.progress = 100 /\ e.certificate.issued = FALSE
              IN /\ (res'.code = 200) <=> pre
                 /\ pre => /\ f.certificate.issued
                           /\ f.certificate.certificateId # << >>
                 /\ ~pre => /\ res'.code >= 400
                            /\ enrollments' = enrollments
                 /\ (res.op = "certificate" /\ res.code = 200 /\ res.id = id) =>
                        /\ res'.code >= 400
                        /\ f.certificate = e.certificate]_vars

\* a certificate request refused on an enrollment whose certificate was
\* issued before
C9_Witness ==
    /\ res.op = "certificate"
    /\ res.code = 500
    /\ res.id \in DOMAIN enrollments
    /\ enrollments[res.id].certificate.issued

(***************************************************************************)
(* SpecRefund: student s1 enrolls in course c1 and the refund, review and   *)
(* certificate requests arrive from the student, from another student and   *)
(* from the admin, with every value the validators of the routes let        *)
(* through: two reasons, the three refund statuses, an amount left out, of  *)
(* 0 and of 49, two ratings, a review text left out or given.  No lecture   *)
(* is completed here.                                                       *)
(***************************************************************************)
AllReasons == {"not satisfied with pacing", "changed my mind about it"}
AllRefundStatuses == {"pending", "approved", "rejected"}
AllRefundAmounts == {<< >>, <<0>>, <<49>>}
AllRatings == {<<4>>, <<5>>}
AllReviews == {Undefined, "clear and well paced"}

NextRefund ==
    \/ \E m \in PaymentMethods, x \in TransactionIds : PostEnroll("s1", "c1", m, x)
    \/ \E p \in Principals, id \in EnrollmentIds : PostCertificate(p, id)
    \/ \E p \in Principals, id \in EnrollmentIds, r \in AllReasons : PostRefund(p, id, r)
    \/ \E p \in Principals, id \in EnrollmentIds,
          s \in AllRefundStatuses, a \in AllRefundAmounts : PutRefundStatus(p, id, s, a)
    \/ \E p \in Principals, id \in EnrollmentIds, r \in AllRatings, v \in AllReviews :
          PostReview(p, id, r, v)

SpecRefund == Init /\ [][NextRefund]_vars

(***************************************************************************)
(* Properties of the refund workflow, checked under SpecRefund.             *)
(***************************************************************************)
\* the first request of the student is granted and sets the three fields
C11_FirstRequestGranted ==
    \A id \in DOMAIN enrollments, r \in AllReasons :
        ( /\ ~enrollments[id].refundRequested
          /\ res'.op = "refund"
          /\ PostRefund(enrollments[id].student, id, r) ) =>
            /\ res'.code = 200
            /\ enrollments'[id].refundRequested
            /\ enrollments'[id].refundReason = r
            /\ enrollments'[id].refundStatus = "pending"

\* a request on an enrollment whose refund was requested fails and changes nothing
C11_LaterRequestRefused ==
    \A id \in DOMAIN enrollments, p \in Principals, r \in AllReasons :
        ( /\ enrollments[id].refundRequested
          /\ res'.op = "refund"
          /\ PostRefund(p, id, r) ) =>
            /\ res'.code # 200
            /\ enrollments' = enrollments

\* refundRequested, once true, and the reason stored with it are kept by
\* every request
C11_RequestKept ==
    \A id \in DOMAIN enrollments :
        enrollments[id].refundRequested =>
            /\ id \in DOMAIN enrollments'
            /\ enrollments'[id].refundRequested
            /\ enrollments'[id].refundReason = enrollments[id].refundReason

\* C11: requestRefund succeeds exactly once per enrollment: the first call
\* sets refundRequested = true, stores the reason and sets refundStatus =
\* pending; every later call fails whatever its reason and whatever
\* processRefund did in between, leaves refundReason unchanged, and
\* refundRequested stays true for the rest of the record's life.
C11_RefundRequestedOnce ==
    [][C11_FirstRequestGranted /\ C11_LaterRequestRefused /\ C11_RequestKept]_vars

\* a second request, with another reason, refused after the admin had
\* rejected the first
C11_Witness ==
    /\ res.op = "refund"
    /\ res.code = 500
    /\ res.id \in DOMAIN enrollments
    /\ enrollments[res.id].refundRequested
    /\ enrollments[res.id].refundStatus = "rejected"
    /\ enrollments[res.id].refundReason = "changed my mind about it"

\* C12: processRefund(enrollmentId, newStatus, amount?) leaves refundStatus
\* equal to approved or rejected, stamps refundProcessedAt, and records
\* refundAmount whenever an amount is supplied (including an amount of 0).
\* Stated for the admin's requests with newStatus approved or rejected.
C12_ProcessRefundRecordsAmount ==
    [][\A id \in DOMAIN enrollments, s \in RefundStatuses, a \in AllRefundAmounts :
          ( /\ res'.op = "refundStatus"
            /\ PutRefundStatus("admin", id, s, a) ) =>
              /\ res'.code = 200
              /\ enrollments'[id].refundStatus = s
              /\ enrollments'[id].refundProcessedAt # NoDate
              /\ (a # << >> => enrollments'[id].refundAmount = a)]_vars

\* any request to the router, made by principal p
RequestBy(p) ==
    \/ \E c \in CourseIds, m \in PaymentMethods, x \in TransactionIds : PostEnroll(p, c, m, x)
    \/ \E id \in EnrollmentIds : GetEnrollment(p, id)
    \/ \E id \in EnrollmentIds : \E l \in LectureChoices(id) : PutProgress(p, id, l, 0)
    \/ \E id \in EnrollmentIds : PostCertificate(p, id)
    \/ \E id \in EnrollmentIds, r \in AllReasons : PostRefund(p, id, r)
    \/ \E id \in EnrollmentIds, st \in AllRefundStatuses, a \in AllRefundAmounts :
          PutRefundStatus(p, id, st, a)
    \/ \E id \in EnrollmentIds, r \in AllRatings, v \in AllReviews : PostReview(p, id, r, v)

\* the step moves some enrollment's refundStatus from pending to approved or
\* rejected
RefundDecided ==
    \E id \in DOMAIN enrollments :
        /\ enrollments[id].refundStatus = "pending"
        /\ id \in DOMAIN enrollments'
        /\ enrollments'[id].refundStatus \in {"approved", "rejected"}

\* C13: only a request by a principal with role admin can move an
\* enrollment's refundStatus from pending to approved or rejected; no request
\* by a non-admin principal (the enrollment's own student included) ever
\* produces that transition.
C13_RefundDecidedByAdminOnly ==
    [][RefundDecided =>
          /\ \E p \in Admins : RequestBy(p)
          /\ \A p \in Principals \ Admins : ~RequestBy(p)]_vars

\* the student's own refund-status request on the pending refund was turned
\* away and the refund is still pending
C13_Witness ==
    /\ res = Response("refundStatus", 403, "Forbidden", 0)
    /\ \E id \in DOMAIN enrollments :
          /\ enrollments[id].refundRequested
          /\ enrollments[id].refundStatus = "pending"
          /\ enrollments[id].refundProcessedAt = NoDate

(***************************************************************************)
(* Properties of the review, checked under SpecRefund.                      *)
(***************************************************************************)
\* a review, once given, is kept by every request
C14_ReviewKept ==
    \A id \in DOMAIN enrollments :
        enrollments[id].rating.given =>
            /\ id \in DOMAIN enrollments'
            /\ enrollments'[id].rating = enrollments[id].rating

\* the student's review request on a reviewed enrollment
C14_SecondReviewRefused ==
    \A id \in DOMAIN enrollments, r \in AllRatings, v \in AllReviews :
        ( /\ enrollments[id].rating.given
          /\ res'.op = "review"
          /\ PostReview(enrollments[id].student, id, r, v) ) =>
            /\ res' = Response("review", 400, "You have already reviewed this course", id)
            /\ enrollments' = enrollments

\* C14: for each enrollment, rating.given changes from false to true exactly
\* once and never back; a second addReview on the same enrollment fails with
\* Conflict (400 'already reviewed') and leaves the stored rating, review and
\* reviewedAt unchanged.
C14_ReviewedOnce ==
    [][C14_ReviewKept /\ C14_SecondReviewRefused]_vars

\* a second review refused; the stored one is the first, of rating 4 with a text
C14_Witness ==
    /\ res.op = "review"
    /\ res.code = 400
    /\ res.id \in DOMAIN enrollments
    /\ enrollments[res.id].rating.given
    /\ enrollments[res.id].rating.rating = <<4>>
    /\ enrollments[res.id].rating.review # Undefined
    /\ enrollments[res.id].rating.reviewedAt # NoDate

\* C15: an addReview call by the enrollment's student on an enrollment with
\* rating.given = false stores the rating on the enrollment and also forwards
\* the same rating to the course's aggregate rating (both records are
\* updated), and the call answers with success.
C15_ReviewStoredForwardedAndAnswered ==
    [][\A id \in DOMAIN enrollments, r \in AllRatings, v \in AllReviews :
          ( /\ ~enrollments[id].rating.given
            /\ res'.op = "review"
            /\ PostReview(enrollments[id].student, id, r, v) ) =>
              /\ enrollments'[id].rating.given
              /\ enrollments'[id].rating.rating = r
              /\ enrollments'[id].rating.review = v
              /\ courses'[enrollments[id].course] # courses[enrollments[id].course]
              /\ res'.code = 200]_vars

\* C16: every business-rule violation on the enrollment endpoints (duplicate
\* enrollment, duplicate review, duplicate refund request, certificate
\* requested when progress < 100 or when already issued) is answered with
\* status 400, never with 500 or another status.
C16_RuleViolationsAnswered400 ==
    [][\A id \in DOMAIN enrollments :
          LET doc == enrollments[id]
              p   == doc.student
          IN /\ \A m \in PaymentMethods, x \in TransactionIds :
                    ( /\ res'.op = "enroll"
                      /\ courses[doc.course].status = "published"
                      /\ PostEnroll(p, doc.course, m, x) ) => res'.code = 400
             /\ \A r \in AllRatings, v \in AllReviews :
                    ( /\ doc.rating.given
                      /\ res'.op = "review"
                      /\ PostReview(p, id, r, v) ) => res'.code = 400
             /\ \A r \in AllReasons :
                    ( /\ doc.refundRequested
                      /\ res'.op = "refund"
                      /\ PostRefund(p, id, r) ) => res'.code = 400
             /\ ( /\ (doc.progress < FullProgress \/ doc.certificate.issued)
                  /\ res'.op = "certificate"
                  /\ PostCertificate(p, id) ) => res'.code = 400]_vars

(***************************************************************************)
(* SpecOwner: student s1 enrolls in course c1, and the five requests on an  *)
(* enrollment arrive from the student, from another student and from the    *)
(* admin, for the enrollment and for an id that names none.                 *)
(***************************************************************************)
NextOwner ==
    \/ \E m \in PaymentMethods, x \in TransactionIds : PostEnroll("s1", "c1", m, x)
    \/ \E p \in Principals, id \in EnrollmentIds : GetEnrollment(p, id)
    \/ \E p \in Principals, id \in EnrollmentIds :
          \E l \in FirstOrNext(id) : PutProgress(p, id, l, 0)
    \/ \E p \in Principals, id \in EnrollmentIds, r \in Ratings, v \in Reviews :
          PostReview(p, id, r, v)
    \/ \E p \in Principals, id \in EnrollmentIds : PostCertificate(p, id)
    \/ \E p \in Principals, id \in EnrollmentIds, r \in Reasons : PostRefund(p, id, r)

SpecOwner == Init /\ [][NextOwner]_vars

\* one of the five owner-gated requests, made by p for id
OwnerGatedRequest(p, id) ==
    \/ res'.op = "get" /\ GetEnrollment(p, id)
    \/ res'.op = "progress" /\ \E l \in FirstOrNext(id) : PutProgress(p, id, l, 0)
    \/ res'.op = "review" /\ \E r \in Ratings, v \in Reviews : PostReview(p, id, r, v)
    \/ res'.op = "certificate" /\ PostCertificate(p, id)
    \/ res'.op = "refund" /\ \E r \in Reasons : PostRefund(p, id, r)

\* C17: for every owner-gated enrollment operation (get details,
\* completeLecture, addReview, issueCertificate, requestRefund), a call by an
\* authenticated principal who is not the enrollment's student is rejected
\* with Forbidden (403) and leaves the Enrollment record unchanged; a call on
\* a missing enrollment is rejected with NotFound (404).
C17_OwnerGated ==
    [][\A p \in Principals, id \in EnrollmentIds :
          OwnerGatedRequest(p, id) =>
              /\ id \notin DOMAIN enrollments =>
                     (res'.code = 404 /\ enrollments' = enrollments)
              /\ (id \in DOMAIN enrollments /\ enrollments[id].student # p) =>
                     (res'.code = 403 /\ enrollments' = enrollments)]_vars

\* a certificate request for a completed course turned away: the caller is
\* not the student, and no certificate was issued
C17_Witness ==
    /\ res.op = "certificate"
    /\ res.code = 403
    /\ res.id \in DOMAIN enrollments
    /\ enrollments[res.id].progress = FullProgress
    /\ ~enrollments[res.id].certificate.issued

(***************************************************************************)
(* SpecCancel: as Spec for the student's and the admin's requests, and an   *)
(* active enrollment can be cancelled.  No route of the router writes       *)
(* status = 'cancelled'; the schema admits the value (Enrollment.js:28) and *)
(* the status is set from outside the enrollment routes.                    *)
(***************************************************************************)
\* active --> cancelled, by an operation outside the enrollment routes
ExternalCancel(id) ==
    /\ id \in DOMAIN enrollments
    /\ enrollments[id].status = "active"
    /\ enrollments' = [enrollments EXCEPT ![id].status = "cancelled"]
    /\ UNCHANGED <<courses, res, inflight>>
    /\ UNCHANGED users

NextCancel ==
    \/ \E m \in PaymentMethods, x \in TransactionIds : PostEnroll("s1", "c1", m, x)
    \/ \E id \in EnrollmentIds : ExternalCancel(id)
    \/ \E id \in EnrollmentIds : \E l \in FirstOrNext(id) : PutProgress("s1", id, l, 0)
    \/ \E id \in EnrollmentIds : PostCertificate("s1", id)
    \/ \E id \in EnrollmentIds, r \in Reasons : PostRefund("s1", id, r)
    \/ \E id \in EnrollmentIds, st \in RefundStatuses, a \in RefundAmounts :
          PutRefundStatus("admin", id, st, a)
    \/ \E id \in EnrollmentIds, r \in Ratings, v \in Reviews : PostReview("s1", id, r, v)

SpecCancel == Init /\ [][NextCancel]_vars

\* C18: completed and cancelled are terminal for the status field: once an
\* enrollment's status is completed or cancelled, none of completeLecture,
\* issueCertificate, requestRefund, processRefund or addReview changes status
\* to any other value.
C18_CompletedAndCancelledTerminal ==
    [][\A id \in DOMAIN enrollments :
          enrollments[id].status \in {"completed", "cancelled"} =>
              /\ id \in DOMAIN enrollments'
              /\ enrollments'[id].status = enrollments[id].status]_vars

(***************************************************************************)
(* GET /  (admin): the listing with filter, sort, skip and limit.           *)
(***************************************************************************)
\* const { page = 1, limit = 20, ... } = req.query
DefaultPage == 1
DefaultLimit == 20
\* the radix of parseInt on a decimal string
Radix == 10

\* parseInt of a string of decimal digits, given as the sequence of its digits
RECURSIVE parseInt(_)
parseInt(digits) ==
    IF Len(digits) = 1 THEN digits[1]
    ELSE parseInt(SubSeq(digits, 1, Len(digits) - 1)) * Radix + digits[Len(digits)]

\* a query parameter left out takes the default of the destructuring
PageOf(page) == IF page = << >> THEN DefaultPage ELSE parseInt(page)
LimitOf(limit) == IF limit = << >> THEN DefaultLimit ELSE parseInt(limit)

\* if (status) filter.status = status; likewise courseId and studentId
Matches(doc, filter) ==
    /\ filter.status # Undefined => doc.status = filter.status
    /\ filter.courseId # Undefined => doc.course = filter.courseId
    /\ filter.studentId # Undefined => doc.student = filter.studentId

\* .sort({ enrollmentDate: -1 }): enrollmentDate is stamped when the document
\* is made and never written again, and _id counts the documents in the
\* order they were made, so the newest first is the greatest _id first
RECURSIVE SortedDesc(_, _, _)
SortedDesc(docs, filter, n) ==
    IF n = 0 THEN << >>
    ELSE IF Matches(docs[n], filter)
         THEN <<n>> \o SortedDesc(docs, filter, n - 1)
         ELSE SortedDesc(docs, filter, n - 1)

\* a skip that counts pages from 0
Skip_zeroBased(page, limit) == PageOf(page) * LimitOf(limit)

\* (parseInt(page) - 1) * parseInt(limit)
Skip(page, limit) == (PageOf(page) - 1) * LimitOf(limit)

\* .skip(skip).limit(limit) on the sorted result
SkipLimit(seq, skip, limit) == SubSeq(seq, skip + 1, Min(skip + limit, Len(seq)))

\* Math.ceil(a / b) for a >= 0, b >= 1
MathCeil(a, b) == IF a % b = 0 THEN a \div b ELSE (a \div b) + 1

\* Enrollment.countDocuments(filter)
countDocuments(docs, filter) == Cardinality({i \in DOMAIN docs : Matches(docs[i], filter)})

GetEnrollments(p, page, limit, filter) ==
    /\ IF ~authorize({"admin"}, p)
       THEN res' = Response("list", 403, "Forbidden", 0)
       ELSE LET total == countDocuments(enrollments, filter)
            IN res' = [ op   |-> "list",
                        code |-> 200,
                        msg  |-> Undefined,
                        id   |-> 0,
                        enrollments |-> SkipLimit(SortedDesc(enrollments, filter, Len(enrollments)),
                                                  Skip(page, limit), LimitOf(limit)),
                        pagination |-> [ currentPage      |-> PageOf(page),
                                         totalPages       |-> MathCeil(total, LimitOf(limit)),
                                         totalEnrollments |-> total,
                                         limit            |-> LimitOf(limit) ] ]
    /\ UNCHANGED <<courses, enrollments, inflight>>
    /\ UNCHANGED users

\* SpecList: s1 enrolls in c1 and c2, s2 in c1, and the listing is asked for
\* by the admin and by a student, with page and limit left out or given as
\* decimal strings and with four filters.
Pages == {<< >>, <<1>>, <<2>>, <<0, 3>>}
Limits == {<< >>, <<1>>, <<2>>}
NoFilter == [status |-> Undefined, courseId |-> Undefined, studentId |-> Undefined]
Filters ==
    { NoFilter,
      [NoFilter EXCEPT !.studentId = "s1"],
      [NoFilter EXCEPT !.courseId = "c1", !.status = "active"],
      [NoFilter EXCEPT !.status = "completed"] }

NextList ==
    \/ \E c \in {"c1", "c2"}, m \in PaymentMethods, x \in TransactionIds :
          PostEnroll("s1", c, m, x)
    \/ \E m \in PaymentMethods, x \in TransactionIds : PostEnroll("s2", "c1", m, x)
    \/ \E page \in Pages, limit \in Limits, f \in Filters :
          GetEnrollments("admin", page, limit, f)
    \/ GetEnrollments("s1", << >>, << >>, NoFilter)

SpecList == Init /\ [][NextList]_vars

\* the number a query value stands for
Denotes(q, default) ==
    CASE q = << >>    -> default
      [] q = <<1>>    -> 1
      [] q = <<2>>    -> 2
      [] q = <<0, 3>> -> 3

\* the records matching the filter, and the one at position k (from 1) when
\* they are listed newest first
Matching(f) ==
    {i \in DOMAIN enrollments :
        /\ f.status # Undefined => enrollments[i].status = f.status
        /\ f.courseId # Undefined => enrollments[i].course = f.courseId
        /\ f.studentId # Undefined => enrollments[i].student = f.studentId}

AtPosition(f, k) ==
    CHOOSE i \in Matching(f) : Cardinality({j \in Matching(f) : j > i}) = k - 1

\* C19: for the admin enrollment listing with page >= 1 and limit >= 1, the
\* response reports currentPage = page, limit = limit, totalEnrollments =
\* number of records matching the filter, and totalPages =
\* ceil(totalEnrollments / limit), and returns the records at 1-based
\* positions (page-1)*limit+1 .. page*limit of the filtered, date-descending
\* list.  (The two tests of res'.pagination before GetEnrollments follow from
\* it and only select the request that made the step.)
C19_ListingPagination ==
    [][\A page \in Pages, limit \in Limits, f \in Filters :
          ( /\ res'.op = "list"
            /\ res'.code = 200
            /\ res'.pagination.currentPage = PageOf(page)
            /\ res'.pagination.limit = LimitOf(limit)
            /\ GetEnrollments("admin", page, limit, f) ) =>
              LET P     == Denotes(page, DefaultPage)
                  L     == Denotes(limit, DefaultLimit)
                  total == Cardinality(Matching(f))
                  first == (P - 1) * L + 1
                  there == {k \in first .. (P * L) : k <= total}
              IN /\ res'.pagination.currentPage = P
                 /\ res'.pagination.limit = L
                 /\ res'.pagination.totalEnrollments = total
                 /\ res'.pagination.totalPages * L >= total
                 /\ (res'.pagination.totalPages - 1) * L < total
                 /\ res'.pagination.totalPages >= 0
                 /\ Len(res'.enrollments) = Cardinality(there)
                 /\ \A k \in there : res'.enrollments[k - first + 1] = AtPosition(f, k)]_vars

\* page 2 of the three enrollments, two to a page: the oldest one alone
C19_Witness ==
    /\ res.op = "list"
    /\ res.code = 200
    /\ res.pagination = [currentPage |-> 2, totalPages |-> 2,
                          totalEnrollments |-> 3, limit |-> 2]
    /\ res.enrollments = <<1>>

(***************************************************************************)
(* SpecScenario: the requests of the end-to-end scenario, in its order.     *)
(* s1 enrolls in the published course c1 (price 49) with credit_card and    *)
(* txn-1; completes ten distinct lectures, the first MaxTimedLectures of    *)
(* them with a time spent of 0 or 30; asks for the certificate twice; asks  *)
(* for a refund; the admin approves it with the amount 49.                  *)
(***************************************************************************)
ScenarioLectures == 10

NextScenario ==
    \/ /\ Len(enrollments) = 0
       /\ PostEnroll("s1", "c1", "credit_card", "txn-1")
    \/ /\ Len(enrollments) = 1
       /\ Len(enrollments[1].completedLectures) < ScenarioLectures
       /\ \E t \in TimeSpentChoices(Len(enrollments[1].completedLectures) + 1) :
             PutProgress("s1", 1, Len(enrollments[1].completedLectures) + 1, t)
    \/ /\ Len(enrollments) = 1
       /\ Len(enrollments[1].completedLectures) = ScenarioLectures
       /\ res.op = "progress" \/ (res.op = "certificate" /\ res.code = 200)
       /\ PostCertificate("s1", 1)
    \/ /\ res.op = "certificate"
       /\ res.code # 200
       /\ \E r \in Reasons : PostRefund("s1", 1, r)
    \/ /\ res.op = "refund"
       /\ PutRefundStatus("admin", 1, "approved", <<49>>)

SpecScenario == Init /\ [][NextScenario]_vars

\* what each answer of the scenario comes with
C20_ScenarioOutcomes ==
    /\ res.op = "enroll" =>
          /\ res.code = 201
          /\ enrollments[res.id].student = "s1"
          /\ enrollments[res.id].course = "c1"
          /\ enrollments[res.id].status = "active"
          /\ enrollments[res.id].progress = 0
          /\ enrollments[res.id].payment.status = "completed"
    /\ res.op = "progress" =>
          /\ res.code = 200
          /\ Len(enrollments[1].completedLectures) = ScenarioLectures =>
                 /\ enrollments[1].progress = 100
                 /\ enrollments[1].status = "completed"
    /\ (res.op = "certificate" /\ res.code = 200) =>
          /\ enrollments[1].certificate.issued
          /\ enrollments[1].certificate.certificateId # << >>
    /\ res.op = "refund" =>
          /\ res.code = 200
          /\ enrollments[1].refundStatus = "pending"
    /\ res.op = "refundStatus" =>
          /\ res.code = 200
          /\ enrollments[1].refundStatus = "approved"
          /\ enrollments[1].refundProcessedAt # NoDate
          /\ enrollments[1].refundAmount = <<49>>

\* the first certificate request is granted, the second fails and leaves the
\* certificate as issued
C20_CertificateOnce ==
    (res'.op = "certificate" /\ PostCertificate("s1", 1)) =>
        IF enrollments[1].certificate.issued
        THEN res'.code # 200 /\ enrollments' = enrollments
        ELSE res'.code = 200

\* C20: the end-to-end scenario holds as a trace: enroll S1 in published
\* course C1 gives status = active, progress = 0, payment.status =
\* completed; ten completeLecture calls with distinct lecture ids give
\* progress = 100 and status = completed; issueCertificate then succeeds with
\* a non-empty certificateId and a second call fails; requestRefund gives
\* refundStatus = pending; the admin refund-status update to approved with an
\* amount gives refundStatus = approved with refundProcessedAt and
\* refundAmount set.
C20_Scenario ==
    []C20_ScenarioOutcomes /\ [][C20_CertificateOnce]_vars

\* the end of the scenario
C20_Witness ==
    /\ res = Response("refundStatus", 200, "Refund status updated successfully", 1)
    /\ enrollments[1].status = "completed"
    /\ enrollments[1].progress = 100
    /\ Len(enrollments[1].completedLectures) = ScenarioLectures
    /\ enrollments[1].certificate.issued
    /\ enrollments[1].refundRequested
    /\ enrollments[1].refundStatus = "approved"
    /\ enrollments[1].refundAmount = <<49>>

(***************************************************************************)
(* routes/users.js: the handlers, and the router that picks one of them.    *)
(***************************************************************************)
\* strings that are ObjectIds: the ids of the users and one that names no user
ObjectIds == UserIds \cup {"u9"}

\* User.findById(id): a string that is no ObjectId makes the query reject
\* with a CastError
findUserById(id) ==
    IF id \notin ObjectIds THEN "throws"
    ELSE IF id \notin DOMAIN users THEN "null"
    ELSE "found"

\* GET /profile
GetProfile(p) ==
    /\ IF findUserById(p) = "found"
       THEN res' = Response("profile", 200, Undefined, p)
       ELSE res' = Response("profile", 404, "User not found", p)
    /\ UNCHANGED <<courses, enrollments, inflight, users>>

\* GET /:id
GetUser(id) ==
    /\ IF findUserById(id) = "throws"
       THEN res' = Response("user", 500, "Server error while fetching user", id)
       ELSE IF findUserById(id) = "null"
       THEN res' = Response("user", 404, "User not found", id)
       ELSE IF ~users[id].isActive
       THEN res' = Response("user", 404, "User not found", id)
       ELSE res' = Response("user", 200, Undefined, id)
    /\ UNCHANGED <<courses, enrollments, inflight, users>>

\* GET /instructors
GetInstructors ==
    /\ res' = [ op   |-> "instructors",
                code |-> 200,
                msg  |-> Undefined,
                id   |-> 0,
                instructors |-> {u \in DOMAIN users :
                                    /\ users[u].role = "instructor"
                                    /\ users[u].isActive
                                    /\ ~users[u].isDeleted} ]
    /\ UNCHANGED <<courses, enrollments, inflight, users>>

\* the head of the three admin routes on one user: authorize('admin'), then
\* User.findById
AdminOnUser(op, p, id) ==
    IF ~authorize({"admin"}, p) THEN Response(op, 403, "Forbidden", 0)
    ELSE IF findUserById(id) = "throws" THEN Response(op, 500, "Server error", id)
    ELSE IF findUserById(id) = "null" THEN Response(op, 404, "User not found", id)
    ELSE Response(op, 200, Undefined, id)

\* PUT /:id/role
PutUserRole(p, id, role) ==
    /\ res' = AdminOnUser("role", p, id)
    /\ IF res'.code = 200
       THEN users' = [users EXCEPT ![id].role = role]
       ELSE UNCHANGED users
    /\ UNCHANGED <<courses, enrollments, inflight>>

\* PUT /:id/status
PutUserStatus(p, id, isActive) ==
    /\ res' = AdminOnUser("status", p, id)
    /\ IF res'.code = 200
       THEN users' = [users EXCEPT ![id].isActive = isActive]
       ELSE UNCHANGED users
    /\ UNCHANGED <<courses, enrollments, inflight>>

\* DELETE /:id (soft delete)
DeleteUser(p, id) ==
    /\ res' = AdminOnUser("delete", p, id)
    /\ IF res'.code = 200
       THEN users' = [users EXCEPT ![id].isDeleted = TRUE, ![id].isActive = FALSE]
       ELSE UNCHANGED users
    /\ UNCHANGED <<courses, enrollments, inflight>>

\* The routes of routes/users.js in the order of their registration.  A
\* segment ":id" is a route parameter and matches any one segment.
UsersRoutes ==
    << [method |-> "GET",    path |-> <<"profile">>,        handler |-> "GetProfile"],
       [method |-> "PUT",    path |-> <<"profile">>,        handler |-> "PutProfile"],
       [method |-> "GET",    path |-> <<":id">>,            handler |-> "GetUser"],
       [method |-> "GET",    path |-> <<"instructors">>,    handler |-> "GetInstructors"],
       [method |-> "GET",    path |-> << >>,                handler |-> "GetUsers"],
       [method |-> "PUT",    path |-> <<":id", "role">>,    handler |-> "PutUserRole"],
       [method |-> "PUT",    path |-> <<":id", "status">>,  handler |-> "PutUserStatus"],
       [method |-> "DELETE", path |-> <<":id">>,            handler |-> "DeleteUser"] >>

MatchPath(pattern, path) ==
    /\ Len(pattern) = Len(path)
    /\ \A i \in DOMAIN pattern : pattern[i] = ":id" \/ pattern[i] = path[i]

\* the router hands the request to the first registered route that matches;
\* none of these handlers calls next()
Dispatch(method, path) ==
    LET matching == {i \in DOMAIN UsersRoutes :
                        /\ UsersRoutes[i].method = method
                        /\ MatchPath(UsersRoutes[i].path, path)}
    IN  IF matching = {} THEN "none"
        ELSE UsersRoutes[CHOOSE i \in matching : \A j \in matching : i <= j].handler

\* One request to /api/users: dispatch, then the handler.  PUT /profile and
\* GET / are in the table for the order of the routes; their requests are
\* not among the inputs.
UsersRequest(p, method, path, body) ==
    LET handler == Dispatch(method, path)
    IN  CASE handler = "GetProfile"     -> GetProfile(p)
          [] handler = "GetUser"        -> GetUser(path[1])
          [] handler = "GetInstructors" -> GetInstructors
          [] handler = "PutUserRole"    -> PutUserRole(p, path[1], body)
          [] handler = "PutUserStatus"  -> PutUserStatus(p, path[1], body)
          [] handler = "DeleteUser"     -> DeleteUser(p, path[1])
          [] OTHER                      -> FALSE

\* the users the admin operations are aimed at, and an id that names no user
TargetIds == {"i1", "s2", "u9"}

Roles == {"student", "instructor"}

NextUsers ==
    \/ \E p \in {"s1", "admin"} : UsersRequest(p, "GET", <<"profile">>, Undefined)
    \/ UsersRequest("s1", "GET", <<"instructors">>, Undefined)
    \/ \E id \in TargetIds : UsersRequest("s1", "GET", <<id>>, Undefined)
    \/ \E p \in {"s1", "admin"}, id \in TargetIds, role \in Roles :
          UsersRequest(p, "PUT", <<id, "role">>, role)
    \/ \E p \in {"s1", "admin"}, id \in TargetIds, isActive \in BOOLEAN :
          UsersRequest(p, "PUT", <<id, "status">>, isActive)
    \/ \E p \in {"s1", "admin"}, id \in TargetIds :
          UsersRequest(p, "DELETE", <<id>>, Undefined)

SpecUsers == Init /\ [][NextUsers]_vars

\* C21: a request GET /api/users/instructors is answered by the instructors
\* handler, with status 200 and the list of the users whose role is
\* instructor, who are active and not deleted; the handler of GET /:id does
\* not answer it.
C21_InstructorsDispatched ==
    [][ UsersRequest("s1", "GET", <<"instructors">>, Undefined)
        => /\ res'.op = "instructors"
           /\ res'.code = 200
           /\ res'.instructors = {u \in DOMAIN users :
                                     /\ users[u].role = "instructor"
                                     /\ users[u].isActive
                                     /\ ~users[u].isDeleted} ]_vars

\* C30: a deleted user is inactive, and GET /api/users/:id never answers 200
\* with the profile of a deleted user, whatever the admin's deletes, status
\* updates and role updates were.
C30_DeletedUserHidden ==
    /\ \A u \in DOMAIN users : users[u].isDeleted => ~users[u].isActive
    /\ (res.op = "user" /\ res.code = 200) => ~users[res.id].isDeleted

\* the lectures of a document, without order and repetition
DistinctLectures(doc) ==
    {doc.completedLectures[a].lecture : a \in DOMAIN doc.completedLectures}

\* C22: after every successful completeLecture the progress of the enrollment
\* is min(100, 10 * |completedLectures|); it is therefore a multiple of 10,
\* and it is 100 exactly when at least 10 distinct lectures are completed.
C22_ProgressFromLectures ==
    [][ (res'.op = "progress" /\ res'.code = 200) =>
            LET e == enrollments'[res'.id]
            IN /\ e.progress = Min(100, 10 * Len(e.completedLectures))
               /\ e.progress % 10 = 0
               /\ (e.progress = 100) <=> (Cardinality(DistinctLectures(e)) >= 10) ]_vars

\* the tenth lecture was just completed: progress has reached 100 with
\* exactly ten lectures, after nine answers below 100
C22_Witness ==
    /\ res.op = "progress"
    /\ res.code = 200
    /\ res.id \in DOMAIN enrollments
    /\ Cardinality(DistinctLectures(enrollments[res.id])) = 10
    /\ enrollments[res.id].progress = 100
    /\ ~enrollments[res.id].certificate.issued

(***************************************************************************)
(* PUT /:id/progress and POST /:id/certificate step by step.  Each handler  *)
(* is suspended at `await Enrollment.findById` and at the `await` of the    *)
(* save; the document it read and changed is its local variable.  A slot    *)
(* keeps the response its request was answered with.                        *)
(***************************************************************************)
\* What document.save() writes: the paths the handler modified since it read
\* the document.  Elements pushed to completedLectures are sent as a $push
\* and appended to the stored array; every other modified path is $set.
WritePaths(stored, read, doc) ==
    [ f \in DOMAIN stored |->
        IF f = "completedLectures"
        THEN stored.completedLectures \o
                 SubSeq(doc.completedLectures,
                        Len(read.completedLectures) + 1, Len(doc.completedLectures))
        ELSE IF doc[f] # read[f] THEN doc[f] ELSE stored[f] ]

\* the handler answers; the slot keeps the answer
Reply(r, response) ==
    /\ res' = response
    /\ inflight' = [inflight EXCEPT ![r] =
                       [pc |-> "answered", op |-> inflight[r].op, id |-> inflight[r].id,
                        response |-> response]]

\* PUT /:id/progress arrives; up to `await Enrollment.findById(req.params.id)`
ProgressReceive(r, p, id, lectureId, timeSpent) ==
    /\ inflight[r] = Idle
    /\ inflight' = [inflight EXCEPT ![r] =
                       [pc |-> "findById", op |-> "progress", student |-> p, id |-> id,
                        lecture |-> lectureId, timeSpent |-> timeSpent]]
    /\ UNCHANGED <<courses, enrollments, res, users>>

\* findById resolves; the 404 and the 403; otherwise completeLecture changes
\* the document in memory and the handler waits for its save
ProgressFindById(r) ==
    /\ inflight[r].pc = "findById"
    /\ inflight[r].op = "progress"
    /\ LET id == inflight[r].id
       IN IF Missing(id)
          THEN Reply(r, Response("progress", 404, "Enrollment not found", id))
          ELSE IF NotOwner(inflight[r].student, id)
          THEN Reply(r, Response("progress", 403, "Not authorized to update this enrollment", id))
          ELSE \E now \in Times :
               /\ inflight' = [inflight EXCEPT ![r] =
                      [pc |-> "save", op |-> "progress", id |-> id,
                       lecture |-> inflight[r].lecture,
                       read |-> enrollments[id],
                       doc  |-> [updateProgress(pushLecture(enrollments[id], inflight[r].lecture,
                                                            inflight[r].timeSpent))
                                   EXCEPT !.lastAccessed = now]]]
               /\ UNCHANGED res
    /\ UNCHANGED <<courses, enrollments, users>>

\* the save of completeLecture, and the answer
ProgressSave(r) ==
    /\ inflight[r].pc = "save"
    /\ inflight[r].op = "progress"
    /\ \E now \in Times :
          LET id == inflight[r].id
              s  == save(inflight[r].doc, now)
          IN IF s.ok
             THEN /\ Store(id, WritePaths(enrollments[id], inflight[r].read, s.doc))
                  /\ res' = Response("progress", 200, "Progress updated successfully", id)
                  /\ inflight' = [inflight EXCEPT ![r] =
                         [pc |-> "answered", op |-> "progress", id |-> id,
                          response |-> res',
                          lecture |-> inflight[r].lecture]]
             ELSE /\ Reply(r, Response("progress", 500, "Server error while updating progress", id))
                  /\ UNCHANGED enrollments
    /\ UNCHANGED <<courses, users>>

\* POST /:id/certificate arrives; up to `await Enrollment.findById(req.params.id)`
CertificateReceive(r, p, id) ==
    /\ inflight[r] = Idle
    /\ inflight' = [inflight EXCEPT ![r] =
                       [pc |-> "findById", op |-> "certificate", student |-> p, id |-> id]]
    /\ UNCHANGED <<courses, enrollments, res, users>>

\* findById resolves; the 404 and the 403; issueCertificate tests the document
\* it was given and throws, or fills in the certificate and waits for the save
CertificateFindById(r) ==
    /\ inflight[r].pc = "findById"
    /\ inflight[r].op = "certificate"
    /\ LET id == inflight[r].id
       IN IF Missing(id)
          THEN Reply(r, Response("certificate", 404, "Enrollment not found", id))
          ELSE IF NotOwner(inflight[r].student, id)
          THEN Reply(r, Response("certificate", 403, "Not authorized to access this certificate", id))
          ELSE IF ~canIssueCertificate(enrollments[id])
          THEN Reply(r, Response("certificate", 500,
                                 "Cannot issue certificate: course not completed or already issued", id))
          ELSE \E now \in Times :
               /\ inflight' = [inflight EXCEPT ![r] =
                      [pc |-> "save", op |-> "certificate", id |-> id,
                       read |-> enrollments[id],
                       doc  |-> [enrollments[id] EXCEPT !.certificate =
                                   [ issued        |-> TRUE,
                                     issuedAt      |-> now,
                                     certificateId |-> CertificateId(id, now),
                                     downloadUrl   |-> DownloadUrl(CertificateId(id, now)) ]]]]
               /\ UNCHANGED res
    /\ UNCHANGED <<courses, enrollments, users>>

\* the save of issueCertificate, and the answer with enrollment.certificate
CertificateSave(r) ==
    /\ inflight[r].pc = "save"
    /\ inflight[r].op = "certificate"
    /\ \E now \in Times :
          LET id == inflight[r].id
              s  == save(inflight[r].doc, now)
          IN IF s.ok
             THEN /\ Store(id, WritePaths(enrollments[id], inflight[r].read, s.doc))
                  /\ res' = Response("certificate", 200, "Certificate issued successfully", id)
                  /\ inflight' = [inflight EXCEPT ![r] =
                         [pc |-> "answered", op |-> "certificate", id |-> id,
                          response |-> res',
                          certificateId |-> s.doc.certificate.certificateId]]
             ELSE /\ Reply(r, Response("certificate", 500, "Server error while issuing certificate", id))
                  /\ UNCHANGED enrollments
    /\ UNCHANGED <<courses, users>>

\* the next two lectures that the stored document does not hold yet
NextTwo(id) ==
    IF id \in DOMAIN enrollments
    THEN {Min(Len(enrollments[id].completedLectures) + 1, MaxLectures),
          Min(Len(enrollments[id].completedLectures) + 2, MaxLectures)}
    ELSE {1}

\* no request is under way or was answered
Quiet == \A r \in Requests : inflight[r] = Idle

\* SpecOverlap: s1 enrolls in c1 and completes lectures one request after
\* the other; then up to MaxInFlight requests for progress and for the
\* certificate arrive from s1, and their steps interleave.
NextOverlap ==
    \/ /\ Quiet
       /\ PostEnroll("s1", "c1", "credit_card", "txn-1")
    \/ /\ Quiet
       /\ Len(enrollments) = 1
       /\ Len(enrollments[1].completedLectures) < MaxLectures
       /\ PutProgress("s1", 1, Len(enrollments[1].completedLectures) + 1, 0)
    \/ \E r \in Requests :
          \E l \in NextTwo(1) : ProgressReceive(r, "s1", 1, l, 0)
    \/ \E r \in Requests : ProgressFindById(r)
    \/ \E r \in Requests : ProgressSave(r)
    \/ \E r \in Requests : CertificateReceive(r, "s1", 1)
    \/ \E r \in Requests : CertificateFindById(r)
    \/ \E r \in Requests : CertificateSave(r)

SpecOverlap == Init /\ [][NextOverlap]_vars

\* C23: two overlapping completeLecture requests with distinct lecture ids
\* can lose an update.  A completeLecture answered with success leaves the
\* stored progress at min(100, 10 * |completedLectures|) whenever no other
\* request wrote completedLectures between its read and its save; C23_Witness
\* is the state the claim says is reachable, where one did.  (A slot goes
\* from "save" to "answered" in ProgressSave only.)
C23_ProgressLostOnlyByOverlap ==
    [][ \A r \in Requests :
          ( /\ inflight[r].pc = "save"
            /\ inflight[r].op = "progress"
            /\ inflight'[r].pc = "answered"
            /\ inflight'[r].response.code = 200
            /\ enrollments[inflight[r].id].completedLectures =
                   inflight[r].read.completedLectures )
          => LET e == enrollments'[inflight[r].id]
             IN e.progress = Min(100, 10 * Len(e.completedLectures)) ]_vars

\* both requests were answered with success, for two lectures, and the
\* stored progress is lower than 10 * the number of lectures completed
C23_Witness ==
    \E r1, r2 \in Requests :
        /\ inflight[r1].pc = "answered" /\ inflight[r2].pc = "answered"
        /\ inflight[r1].op = "progress" /\ inflight[r2].op = "progress"
        /\ inflight[r1].response.code = 200 /\ inflight[r2].response.code = 200
        /\ inflight[r1].id = inflight[r2].id
        /\ inflight[r1].lecture # inflight[r2].lecture
        /\ LET e == enrollments[inflight[r1].id]
           IN /\ {inflight[r1].lecture, inflight[r2].lecture} \subseteq DistinctLectures(e)
              /\ Cardinality(DistinctLectures(e)) <= 10
              /\ e.progress < 10 * Cardinality(DistinctLectures(e))

\* the requests for the certificate of enrollment id that were answered with
\* success
CertificateAnswers(id) ==
    {r \in Requests : /\ inflight[r].pc = "answered"
                      /\ inflight[r].op = "certificate"
                      /\ inflight[r].id = id
                      /\ inflight[r].response.code = 200}

\* C28: of the issueCertificate requests for one completed enrollment, also
\* when their steps interleave, at most one is answered with success and at
\* most one certificateId is returned to a caller.
C28_OneCertificateAnswer ==
    \A id \in DOMAIN enrollments :
        /\ Cardinality(CertificateAnswers(id)) <= 1
        /\ Cardinality({inflight[r].certificateId : r \in CertificateAnswers(id)}) <= 1

(***************************************************************************)
(* POST / with a store that can fail at the second write.                   *)
(***************************************************************************)
\* a failure handler that takes the enrollment back before it answers
EnrollSaveCourseFails_rollback(r) ==
    /\ inflight[r].pc = "saveCourse"
    /\ enrollments' = SubSeq(enrollments, 1, inflight[r].id - 1) \o
                      SubSeq(enrollments, inflight[r].id + 1, Len(enrollments))
    /\ Answer(r, EnrollError)
    /\ UNCHANGED <<courses, users>>

\* `await course.save()` rejects: the catch answers 500.  The enrollment was
\* saved before; the catch does not touch it.
EnrollSaveCourseFails(r) ==
    /\ inflight[r].pc = "saveCourse"
    /\ Answer(r, EnrollError)
    /\ UNCHANGED <<courses, enrollments, users>>

\* SpecFault: as SpecRace, and the save of the course may fail
NextFault ==
    \/ NextRace
    \/ \E r \in Requests : EnrollSaveCourseFails(r)

SpecFault == Init /\ [][NextFault]_vars

\* the enrollment records of course c
EnrollmentsOf(c) ==
    Cardinality({i \in DOMAIN enrollments : enrollments[i].course = c})

\* the requests that saved an enrollment in c and have the save of the course
\* still before them
PendingCourseSaves(c) ==
    Cardinality({r \in Requests : inflight[r].pc = "saveCourse" /\ inflight[r].course = c})

\* by how much the counter of c is behind its enrollment records, the pending
\* saves counted as done
Shortfall(c) == EnrollmentsOf(c) - courses[c].enrollmentCount - PendingCourseSaves(c)

\* C24: when the store fails between the two writes of enroll, the caller is
\* answered with an error, the Enrollment stays stored and the course's
\* counter is not incremented; and no later step makes up for it: no record
\* is taken back and the counter's shortfall never shrinks.
C24_PartialUpdateStays ==
    [][ /\ \A r \in Requests :
              (inflight[r].pc = "saveCourse" /\ inflight'[r] = Idle) =>
                  /\ res' = EnrollError
                  /\ courses' = courses
                  /\ inflight[r].id \in DOMAIN enrollments'
                  /\ enrollments'[inflight[r].id].course = inflight[r].course
        /\ \A i \in DOMAIN enrollments :
              /\ i \in DOMAIN enrollments'
              /\ enrollments'[i].student = enrollments[i].student
              /\ enrollments'[i].course = enrollments[i].course
        /\ \A c \in DOMAIN courses : Shortfall(c)' >= Shortfall(c) ]_vars

\* the save of the course failed and the student asked again: the retry is
\* answered 400, the enrollment is there and the counter is still 0
C24_Witness ==
    /\ res = EnrollFailure("duplicate")
    /\ \A r \in Requests : inflight[r] = Idle
    /\ EnrollmentsOf("c1") = 1
    /\ courses["c1"].enrollmentCount = 0

\* C27: when all enroll requests have run to completion, without a failure
\* of the store, the enrollmentCount of each course has grown by the number
\* of enroll requests for it that were answered 201, also when the requests
\* of different students interleave.  Without a failure every request that
\* saved an Enrollment is answered 201, so with no request under way the
\* number of 201 answers for a course is the number of its records; the
\* counters start at 0.
C27_CounterMatchesEnrollments ==
    (\A r \in Requests : inflight[r] = Idle) =>
        \A c \in DOMAIN courses : courses[c].enrollmentCount = EnrollmentsOf(c)

\* C25: in every reachable state an Enrollment whose refundStatus is pending,
\* approved or rejected has refundRequested = true, whatever the sequence of
\* requestRefund calls and of the admin's refund-status updates.
C25_RefundStatusImpliesRequested ==
    \A i \in DOMAIN enrollments :
        enrollments[i].refundStatus \in {"pending", "approved", "rejected"} =>
            enrollments[i].refundRequested

\* C26: whenever an enrollment endpoint (enroll, completeLecture, addReview,
\* issueCertificate, requestRefund, processRefund) answers with a 4xx or 5xx
\* status, the store not failing, the stored Enrollment records are exactly
\* as they were before the request.
C26_FailureChangesNothing ==
    [][res'.code >= 400 => enrollments' = enrollments]_vars

\* C29: in every state reachable through the service operations, an
\* enrollment whose certificate is issued has status completed, and an
\* enrollment with status completed has progress 100 and a completionDate.
C29_CertificateAndCompletion ==
    \A i \in DOMAIN enrollments :
        LET e == enrollments[i]
        IN /\ e.certificate.issued => e.status = "completed"
           /\ e.status = "completed" => (e.progress = 100 /\ e.completionDate # NoDate)

\* a completed enrollment with its certificate, saved again afterwards by an
\* eleventh lecture and by a refund decision
C29_Witness ==
    \E i \in DOMAIN enrollments :
        /\ enrollments[i].certificate.issued
        /\ enrollments[i].status = "completed"
        /\ Len(enrollments[i].completedLectures) = 11
        /\ enrollments[i].refundStatus = "rejected"

====
